---- MODULE Spec2Model ----
(***************************************************************************)
(* SmartDAC (src/smartDac.py): the command encoder of a DAC driven over    *)
(* I2C.  The model follows the script: main (lines 416-480) calls one      *)
(* method of class dac per request; the method converts its arguments and  *)
(* hands two-byte payloads to bus.write_i2c_block_data.                    *)
(*                                                                         *)
(* Python values are modelled by what they are: an int is an Integer, a    *)
(* list is PyList(<<...>>), None is None.  A float voltage is modelled by  *)
(* its value in millivolts (an Integer); the float expression              *)
(* round(val * 1023.0 / 5) is then round-half-to-even of the rational      *)
(* val * 1023 / 5000, which is what CPython computes on that grid.         *)
(* A slew time is kept in units of 1e-10 s so that every table entry is    *)
(* an Integer.                                                             *)
(***************************************************************************)
EXTENDS Integers, Sequences, FiniteSets, TLC

VARIABLES
    pc,       \* pc[p]: where process p (one run of the script) stands
    cur,      \* cur[p]: index in calls of the dac call p is running, 0 if none
    calls,    \* every dac call made so far: arguments, locals, outcome
    trace,    \* what reached the bus, in order, and the time.sleep between
    stdout    \* what was printed, in order

vars == <<pc, cur, calls, trace, stdout>>

----------------------------------------------------------------------------
(* Bounds of the model *)

\* Largest voltage main's "v" command is tried with, in millivolts.
MaxMilliVolt == 5040
\* Largest -S and -C arguments tried (the tables end at 15 and 7).
MaxSlewArg == 16
MaxStepArg == 8
\* Register values tried by "w": -2..MaxWriteVal and the ones around 65535.
MaxWriteVal == 260
\* Number of dac calls in a sequence of runs of the script (SpecSeq).
MaxCalls == 3

----------------------------------------------------------------------------
(* Registers and commands, lines 36-86 *)

regStatus       == 208     \* 0xD0
regConfig       == 209     \* 0xD1
regMedConfig    == 210     \* 0xD2
regTrigger      == 211     \* 0xD3
regDAC          == 33      \* 0x21
regDAC_MarginH  == 37      \* 0x25
regDAC_MarginL  == 38      \* 0x26
regPMBusOp      == 1       \* 0x01
regPMBus_Status == 120     \* 0x78
regPMBus_Ver    == 152     \* 0x98

cmdReset        == 10      \* 0x000A
cmdPowerOn      == 0       \* 0x0000
cmdPowerOff     == 16      \* 0x0010
cmdPowerOff_10k == 24      \* 0x0018
cmdLock         == 8192    \* 0x2000
cmdUnlock       == 20480   \* 0x5000
cmdNVMProg      == 16      \* 0x0010
cmdNVMReload    == 32      \* 0x0020
cmdErase        == 0       \* 0x0000
cmdFactory      == 512     \* 0x0200

medAlarmHP == 4
medAlarmMP == 2
medAlarmLP == 1

cmdSawL      == 1
cmdSawH      == 2
cmdSquare    == 3
cmdTriangle  == 0
cmdStartFunc == 1

----------------------------------------------------------------------------
(* Python values *)

None == [kind |-> "NoneType"]
PyInt(n) == [kind |-> "int", int |-> n]
PyList(s) == [kind |-> "list", list |-> s]

\* x[i] (0-based) is defined for a list only; on an int or on None Python
\* raises TypeError.
Subscriptable(x) == x.kind = "list"
Item(x, i) == x.list[i + 1]

----------------------------------------------------------------------------
(* Python's integer operators on unbounded ints *)

RECURSIVE Pow2(_)
Pow2(n) == IF n = 0 THEN 1 ELSE 2 * Pow2(n - 1)

\* a << n
Shl(a, n) == a * Pow2(n)
\* a >> n: arithmetic shift, floor division
Shr(a, n) == a \div Pow2(n)

\* a & m for a mask m >= 0 (a may be negative: two's complement)
RECURSIVE BitAnd(_, _)
BitAnd(a, m) ==
    IF m = 0 THEN 0
    ELSE (a % 2) * (m % 2) + 2 * BitAnd(a \div 2, m \div 2)

\* a | b for a, b >= 0
RECURSIVE BitOr(_, _)
BitOr(a, b) ==
    IF a = 0 THEN b
    ELSE IF b = 0 THEN a
    ELSE (IF a % 2 = 1 \/ b % 2 = 1 THEN 1 ELSE 0)
         + 2 * BitOr(a \div 2, b \div 2)

\* round(num / den), den > 0: to the nearest integer, a tie to the even one
round(num, den) ==
    LET q == num \div den
        r == num % den
    IN  IF 2 * r < den THEN q
        ELSE IF 2 * r > den THEN q + 1
        ELSE IF q % 2 = 0 THEN q ELSE q + 1

----------------------------------------------------------------------------
(* Tables, lines 62-115 *)

medDeadTime_0 == PyList(<<0, "16 sec", "2.60 sec", "2.55 sec">>)
medDeadTime_1 == PyList(<<1, "16 sec", "3.06 sec", "2.96 sec">>)
medDeadTime_2 == PyList(<<2, "16 sec", "3.52 sec", "3.38 sec">>)
medDeadTime_3 == PyList(<<3, "16 sec", "4.00 sec", "3.80 sec">>)

medPulseOff_0 == PyList(<<0, "40 msec", "40 msec", "15 msec">>)
medPulseOff_1 == PyList(<<1, "60 msec", "60 msec", "36 msec">>)
medPulseOff_2 == PyList(<<2, "80 msec", "80 msec", "58 msec">>)
medPulseOff_3 == PyList(<<3, "100 msec", "100 msec", "80 msec">>)

medPulseOn_0 == PyList(<<0, "80 msec", "130 msec", "130 msec">>)
medPulseOn_1 == PyList(<<1, "103 msec", "153 msec", "153 msec">>)
medPulseOn_2 == PyList(<<2, "126 msec", "176 msec", "176 msec">>)
medPulseOn_3 == PyList(<<3, "150 msec", "200 msec", "200 msec">>)

step_1  == PyList(<<0, 1>>)
step_2  == PyList(<<1, 2>>)
step_3  == PyList(<<2, 3>>)
step_4  == PyList(<<3, 4>>)
step_6  == PyList(<<4, 6>>)
step_8  == PyList(<<5, 8>>)
step_16 == PyList(<<6, 16>>)
step_32 == PyList(<<7, 32>>)

\* [code, seconds per LSB in units of 1e-10 s]
slew_0  == PyList(<<0, 256000>>)       \* 25.6e-6
slew_1  == PyList(<<1, 320000>>)       \* 25.6e-6 * 1.25
slew_2  == PyList(<<2, 384000>>)       \* 25.6e-6 * 1.5
slew_3  == PyList(<<3, 448000>>)       \* 25.6e-6 * 1.75
slew_4  == PyList(<<4, 2048000>>)      \* 204.8e-6
slew_5  == PyList(<<5, 2560000>>)      \* 204.8e-6 * 1.25
slew_6  == PyList(<<6, 3072000>>)      \* 204.8e-6 * 1.5
slew_7  == PyList(<<7, 3584000>>)      \* 204.8e-6 * 1.75
slew_8  == PyList(<<8, 16384000>>)     \* 1.6384e-3
slew_9  == PyList(<<9, 20480>>)        \* 1.6384e-6 * 1.25
slew_10 == PyList(<<10, 24576>>)       \* 1.6384e-6 * 1.5
slew_11 == PyList(<<11, 28672>>)       \* 1.6384e-6 * 1.75
slew_12 == PyList(<<12, 120000>>)      \* 12e-6
slew_13 == PyList(<<13, 80000>>)       \* 8e-6
slew_14 == PyList(<<14, 40000>>)       \* 4e-6
\* a bare int, not a list
slew_15 == 15
slew_no == 15

----------------------------------------------------------------------------
(* The pure methods of class dac, lines 226-288.  A lookup yields what it  *)
(* returns (ret) and what it prints (out).                                 *)

\* nibble with the low byte first
nibble_lowFirst(val) == <<BitAnd(val, 255), Shr(val, 8)>>

\* [val >> 8, val & 0xFF]
nibble(val) == <<Shr(val, 8), BitAnd(val, 255)>>

\* calcDACCode with int() in the place of round()
calcDACCode_truncates(val) == Shl((val * 1023) \div (5 * 1000), 2)

\* val: volts, in millivolts
calcDACCode(val) ==
    LET DAC_CODE == round(val * 1023, 5 * 1000)
    IN  Shl(DAC_CODE, 2)

\* Line 258 compares args, the argparse Namespace of line 213, with "no":
\* never equal.
ArgsIsNo == FALSE

slew_rate(arg) ==
    IF arg = 0 THEN [ret |-> slew_0, out |-> <<>>]
    ELSE IF arg = 1 THEN [ret |-> slew_1, out |-> <<>>]
    ELSE IF arg = 2 THEN [ret |-> slew_2, out |-> <<>>]
    ELSE IF arg = 3 THEN [ret |-> slew_3, out |-> <<>>]
    ELSE IF arg = 4 THEN [ret |-> slew_4, out |-> <<>>]
    ELSE IF arg = 5 THEN [ret |-> slew_5, out |-> <<>>]
    ELSE IF arg = 6 THEN [ret |-> slew_6, out |-> <<>>]
    ELSE IF arg = 7 THEN [ret |-> slew_7, out |-> <<>>]
    ELSE IF arg = 8 THEN [ret |-> slew_8, out |-> <<>>]
    ELSE IF arg = 9 THEN [ret |-> slew_9, out |-> <<>>]
    ELSE IF arg = 10 THEN [ret |-> slew_10, out |-> <<>>]
    ELSE IF arg = 11 THEN [ret |-> slew_11, out |-> <<>>]
    ELSE IF arg = 12 THEN [ret |-> slew_12, out |-> <<>>]
    ELSE IF arg = 13 THEN [ret |-> slew_13, out |-> <<>>]
    ELSE IF arg = 14 THEN [ret |-> slew_14, out |-> <<>>]
    ELSE IF arg = 15 THEN [ret |-> PyInt(slew_15), out |-> <<>>]
    ELSE IF ArgsIsNo THEN [ret |-> PyInt(slew_no), out |-> <<>>]
    ELSE [ret |-> None,
          out |-> <<"Please enter Slew Rate number from 0 to 15">>]

code_step(arg) ==
    IF arg = 0 THEN [ret |-> step_1, out |-> <<>>]
    ELSE IF arg = 1 THEN [ret |-> step_2, out |-> <<>>]
    ELSE IF arg = 2 THEN [ret |-> step_3, out |-> <<>>]
    ELSE IF arg = 3 THEN [ret |-> step_4, out |-> <<>>]
    ELSE IF arg = 4 THEN [ret |-> step_6, out |-> <<>>]
    ELSE IF arg = 5 THEN [ret |-> step_8, out |-> <<>>]
    ELSE IF arg = 6 THEN [ret |-> step_16, out |-> <<>>]
    ELSE IF arg = 7 THEN [ret |-> step_32, out |-> <<>>]
    ELSE [ret |-> None,
          out |-> <<"Please enter Code Step number from 0 to 7">>]

calcDeadtime(arg) ==
    IF arg = 0 THEN medDeadTime_0
    ELSE IF arg = 1 THEN medDeadTime_1
    ELSE IF arg = 2 THEN medDeadTime_2
    ELSE IF arg = 3 THEN medDeadTime_3
    ELSE None

calcPulse_off_time(arg) ==
    IF arg = 0 THEN medPulseOff_0
    ELSE IF arg = 1 THEN medPulseOff_1
    ELSE IF arg = 2 THEN medPulseOff_2
    ELSE IF arg = 3 THEN medPulseOff_3
    ELSE None

calcPulse_on_time(arg) ==
    IF arg = 0 THEN medPulseOn_0
    ELSE IF arg = 1 THEN medPulseOn_1
    ELSE IF arg = 2 THEN medPulseOn_2
    ELSE IF arg = 3 THEN medPulseOn_3
    ELSE None

----------------------------------------------------------------------------
(* The command words and the write sequences of the methods *)

\* lock asserting the lock before it clears the trigger bits
lockWrites_configFirst ==
    << <<regConfig, nibble(cmdLock)>>, <<regTrigger, nibble(cmdErase)>> >>

\* lines 309-310
lockWrites ==
    << <<regTrigger, nibble(cmdErase)>>, <<regConfig, nibble(cmdLock)>> >>

\* lines 313-314
unLockWrites ==
    << <<regTrigger, nibble(cmdUnlock)>>, <<regConfig, nibble(cmdErase)>> >>

\* funcCmd with the step code shifted by 8, into the slew field
funcCmd_stepAt8(mode, slew, step) ==
    IF mode = "square"
        THEN BitOr(Shl(cmdSquare, 14), Shl(Item(slew, 0), 5))
    ELSE BitOr(BitOr(Shl(IF mode = "triangle" THEN cmdTriangle
                         ELSE IF mode = "sawH" THEN cmdSawH ELSE cmdSawL, 14),
                     Shl(Item(slew, 0), 5)),
               Shl(Item(step, 0), 8))

\* cmd of funcGen, lines 351, 360, 369, 377; slew and step are lists here
funcCmd(mode, slew, step) ==
    IF mode = "square"
        THEN BitOr(Shl(cmdSquare, 14), Shl(Item(slew, 0), 5))
    ELSE IF mode = "triangle"
        THEN BitOr(BitOr(Shl(cmdTriangle, 14), Shl(Item(slew, 0), 5)),
                   Shl(Item(step, 0), 9))
    ELSE IF mode = "sawH"
        THEN BitOr(BitOr(Shl(cmdSawH, 14), Shl(Item(slew, 0), 5)),
                   Shl(Item(step, 0), 9))
    ELSE BitOr(BitOr(Shl(cmdSawL, 14), Shl(Item(slew, 0), 5)),
               Shl(Item(step, 0), 9))

\* What cmd reads: slew[0] in every mode, step[0] in all but square.
\* Subscripting an int or None raises TypeError.
funcCmdRaises(mode, slew, step) ==
    \/ ~Subscriptable(slew)
    \/ mode # "square" /\ ~Subscriptable(step)

\* freq of funcGen, lines 352, 361, 370, 378: num / (den[1] * den[2] *
\* den[3]) in units of 1e10 Hz.  The divisor is kept as its factors: their
\* product leaves TLC's integers.
funcFreq(mode, slew, step, margH, margL) ==
    IF mode = "square"
        THEN [num |-> 1, den |-> <<2, Item(slew, 1), 1>>]
    ELSE IF mode = "triangle"
        THEN [num |-> Item(step, 1),
              den |-> <<2, Item(slew, 1), Shr(margH - margL, 2) + 1>>]
    ELSE [num |-> Item(step, 1),
          den |-> <<1, Item(slew, 1), Shr(margH - margL, 2) + 1>>]

\* float division by zero
ZeroDivisor(freq) == \E i \in 1..3 : freq.den[i] = 0

\* funcGenWrites with the start command ahead of the margins
funcGenWrites_startEarly(c) ==
    << <<regConfig, nibble(c.cmd)>>,
       <<regTrigger, nibble(Shl(cmdStartFunc, 8))>>,
       <<regDAC_MarginH, nibble(c.margH)>>,
       <<regDAC_MarginL, nibble(c.margL)>> >>

\* the four writes after cmd and freq, lines 353-356, 362-365, 371-374,
\* 379-382
funcGenWrites(c) ==
    << <<regConfig, nibble(c.cmd)>>,
       <<regDAC_MarginH, nibble(c.margH)>>,
       <<regDAC_MarginL, nibble(c.margL)>>,
       <<regTrigger, nibble(Shl(cmdStartFunc, 8))>> >>

\* medCmd with the pulse-on and pulse-off codes in each other's field
medCmd_onOffSwapped(mode, dead_time, offTime, onTime) ==
    LET prio == IF mode = "l" THEN medAlarmLP
                ELSE IF mode = "m" THEN medAlarmMP
                ELSE medAlarmHP
    IN  BitOr(BitOr(BitOr(Shl(prio, 8), Shl(Item(dead_time, 0), 4)),
                    Shl(Item(onTime, 0), 2)),
              Shl(Item(offTime, 0), 0))

\* cmd of medGen, lines 392, 396, 400
medCmd(mode, dead_time, offTime, onTime) ==
    LET prio == IF mode = "l" THEN medAlarmLP
                ELSE IF mode = "m" THEN medAlarmMP
                ELSE medAlarmHP
    IN  BitOr(BitOr(BitOr(Shl(prio, 8), Shl(Item(dead_time, 0), 4)),
                    Shl(Item(offTime, 0), 2)),
              Shl(Item(onTime, 0), 0))

\* the column of a timing row that medGen prints, lines 394, 398, 402
medColumn(mode) == IF mode = "l" THEN 1 ELSE IF mode = "m" THEN 2 ELSE 3

----------------------------------------------------------------------------
(* What main (lines 416-480) can be asked: argparse, lines 121-213 *)

Procs == {1, 2}

Registers ==
    {regStatus, regConfig, regMedConfig, regTrigger, regDAC, regDAC_MarginH,
     regDAC_MarginL, regPMBusOp, regPMBus_Status, regPMBus_Ver}

\* "v": any float
Voltages == ((0 - 40) .. MaxMilliVolt) \cup {100000}
\* "w": any int
WriteVals == ((0 - 2) .. MaxWriteVal) \cup (65534 .. 65537)
\* "func" -H, -L: any float; -S, -C: any int; -M: one of four
Margins == {0 - 5, 0, 5, 5000, 100000}
SlewArgs == (0 - 1) .. MaxSlewArg
StepArgs == (0 - 1) .. MaxStepArg
Modes == {"square", "triangle", "sawH", "sawL"}

NoArgs == [none |-> TRUE]

FlagOps ==
    {[op |-> o, args |-> NoArgs] :
        o \in {"lock", "unLock", "reset", "funcGenOff", "factoryReset"}}

PowerOps == {[op |-> "power", args |-> [val |-> v]] : v \in {"on", "off", "10k"}}

NVMOps == {[op |-> "NVM", args |-> [mode |-> m]] : m \in {"prog", "reload"}}

VoltOps == {[op |-> "setVoltage", args |-> [voltage |-> v]] : v \in Voltages}

WriteOps ==
    {[op |-> "write", args |-> [reg |-> r, val |-> v]] :
        r \in Registers, v \in WriteVals}

FuncOps ==
    {[op |-> "funcGen",
      args |-> [mode |-> m, marginH |-> h, marginL |-> l,
                slew_rate |-> s, code_step |-> c]] :
        m \in Modes, h \in Margins, l \in Margins,
        s \in SlewArgs, c \in StepArgs}

MedOps ==
    {[op |-> "medGen",
      args |-> [mode |-> m, deadtime |-> t, on |-> n, off |-> f]] :
        m \in {"l", "m", "h"}, t \in 0..3, n \in 0..3, f \in 0..3}

\* every request of the command line
CliOps ==
    FlagOps \cup PowerOps \cup NVMOps \cup VoltOps \cup WriteOps
        \cup FuncOps \cup MedOps

\* the flags, and "func" with the defaults of lines 162-172
SeqOps ==
    FlagOps
        \cup {[op |-> "funcGen",
               args |-> [mode |-> "square", marginH |-> 5000, marginL |-> 0,
                         slew_rate |-> 0, code_step |-> 0]]}

----------------------------------------------------------------------------
(* State *)

\* the first line of a method
Entry(op) ==
    IF op = "lock" THEN "lock_309"
    ELSE IF op = "unLock" THEN "unLock_313"
    ELSE IF op = "funcGen" THEN "funcGen_341"
    ELSE op

NewCall(p, o) ==
    [proc |-> p, op |-> o.op, args |-> o.args, status |-> "running",
     ret |-> None, margH |-> 0, margL |-> 0, slew |-> None, step |-> None,
     cmd |-> 0, freq |-> [num |-> 0, den |-> <<1, 1, 1>>]]

Init ==
    /\ pc = [p \in Procs |-> "idle"]
    /\ cur = [p \in Procs |-> 0]
    /\ calls = <<>>
    /\ trace = <<>>
    /\ stdout = <<>>

\* main calls a method of dac with one of the requests ops: lines 416-476
Begin(p, ops, limit) ==
    /\ pc[p] = "idle"
    /\ Len(calls) < limit
    /\ \E o \in ops :
          /\ calls' = Append(calls, NewCall(p, o))
          /\ pc' = [pc EXCEPT ![p] = Entry(o.op)]
    /\ cur' = [cur EXCEPT ![p] = Len(calls) + 1]
    /\ UNCHANGED <<trace, stdout>>

\* an exception nobody catches: the script ends with the traceback
Raise(p, exc) ==
    /\ calls' = [calls EXCEPT ![cur[p]].status = exc]
    /\ pc' = [pc EXCEPT ![p] = "idle"]
    /\ cur' = [cur EXCEPT ![p] = 0]

\* BusWrite inside a loop that tries the transfer again when it fails
BusWrite_retries(p, w, next) ==
    \/ /\ trace' = Append(trace, [call |-> cur[p], kind |-> "write",
                                  reg |-> w[1], data |-> w[2]])
       /\ pc' = [pc EXCEPT ![p] = next]
       /\ UNCHANGED <<cur, calls>>
    \/ /\ Len(SelectSeq(trace, LAMBDA e : e.call = cur[p] /\ e.kind = "fail"))
            < 2
       /\ trace' = Append(trace, [call |-> cur[p], kind |-> "fail",
                                  reg |-> w[1], data |-> w[2]])
       /\ UNCHANGED <<pc, cur, calls>>

\* bus.write_i2c_block_data(DAC_addr, w[1], w[2]) in a method that catches
\* nothing: the block reaches the bus and the method goes on, or the
\* transfer fails, smbus raises OSError and the script ends
BusWrite(p, w, next) ==
    \/ /\ trace' = Append(trace, [call |-> cur[p], kind |-> "write",
                                  reg |-> w[1], data |-> w[2]])
       /\ pc' = [pc EXCEPT ![p] = next]
       /\ UNCHANGED <<cur, calls>>
    \/ /\ trace' = Append(trace, [call |-> cur[p], kind |-> "fail",
                                  reg |-> w[1], data |-> w[2]])
       /\ Raise(p, "OSError")

Say(p, texts) == stdout' = stdout \o [i \in 1..Len(texts) |-> [call |-> cur[p], text |-> texts[i]]]

----------------------------------------------------------------------------
(* The methods of class dac, lines 290-408, one action per step *)

\* lines 291-292
setVoltage(p) ==
    /\ pc[p] = "setVoltage"
    /\ LET DACVal == calcDACCode(calls[cur[p]].args.voltage)
       IN  BusWrite(p, <<regDAC, nibble(DACVal)>>, "setVoltage_293")
    /\ UNCHANGED stdout

\* line 293
setVoltage_293(p) ==
    /\ pc[p] = "setVoltage_293"
    /\ LET DACVal == calcDACCode(calls[cur[p]].args.voltage)
       IN  calls' = [calls EXCEPT ![cur[p]].ret = PyInt(DACVal)]
    /\ pc' = [pc EXCEPT ![p] = "return"]
    /\ UNCHANGED <<cur, trace, stdout>>

lock_309(p) ==
    /\ pc[p] = "lock_309"
    /\ BusWrite(p, lockWrites[1], "lock_310")
    /\ UNCHANGED stdout

lock_310(p) ==
    /\ pc[p] = "lock_310"
    /\ BusWrite(p, lockWrites[2], "return")
    /\ UNCHANGED stdout

unLock_313(p) ==
    /\ pc[p] = "unLock_313"
    /\ BusWrite(p, unLockWrites[1], "unLock_314")
    /\ UNCHANGED stdout

unLock_314(p) ==
    /\ pc[p] = "unLock_314"
    /\ BusWrite(p, unLockWrites[2], "return")
    /\ UNCHANGED stdout

\* line 317
reset(p) ==
    /\ pc[p] = "reset"
    /\ BusWrite(p, <<regTrigger, nibble(cmdReset)>>, "return")
    /\ UNCHANGED stdout

\* lines 319-328
power(p) ==
    /\ pc[p] = "power"
    /\ LET val == calls[cur[p]].args.val
           cmd == IF val = "on" THEN cmdPowerOn
                  ELSE IF val = "off" THEN cmdPowerOff
                  ELSE cmdPowerOff_10k
       IN  BusWrite(p, <<regConfig, nibble(cmd)>>, "return")
    /\ UNCHANGED stdout

\* lines 330-332
write(p) ==
    /\ pc[p] = "write"
    /\ LET regdata == nibble(calls[cur[p]].args.val)
       IN  BusWrite(p, <<calls[cur[p]].args.reg, <<regdata[1], regdata[2]>> >>,
                    "return")
    /\ UNCHANGED stdout

\* lines 334-338
NVM(p) ==
    /\ pc[p] = "NVM"
    /\ LET cmd == IF calls[cur[p]].args.mode = "prog" THEN cmdNVMProg
                  ELSE cmdNVMReload
       IN  BusWrite(p, <<regTrigger, nibble(cmd)>>, "return")
    /\ UNCHANGED stdout

\* line 405
funcGenOff(p) ==
    /\ pc[p] = "funcGenOff"
    /\ BusWrite(p, <<regTrigger, nibble(cmdErase)>>, "return")
    /\ UNCHANGED stdout

\* line 408
factoryReset(p) ==
    /\ pc[p] = "factoryReset"
    /\ BusWrite(p, <<regTrigger, nibble(cmdFactory)>>, "return")
    /\ UNCHANGED stdout

\* line 341: dac.funcGenOff()
funcGen_341(p) ==
    /\ pc[p] = "funcGen_341"
    /\ BusWrite(p, <<regTrigger, nibble(cmdErase)>>, "funcGen_342")
    /\ UNCHANGED stdout

\* line 342: time.sleep(0.5)
funcGen_342(p) ==
    /\ pc[p] = "funcGen_342"
    /\ trace' = Append(trace, [call |-> cur[p], kind |-> "sleep", ms |-> 500])
    /\ pc' = [pc EXCEPT ![p] = "funcGen_343"]
    /\ UNCHANGED <<cur, calls, stdout>>

\* lines 343-347: the margins and the two lookups
funcGen_343(p) ==
    /\ pc[p] = "funcGen_343"
    /\ LET a == calls[cur[p]].args
           slew == slew_rate(a.slew_rate)
           step == code_step(a.code_step)
       IN  /\ calls' = [calls EXCEPT ![cur[p]].margH = calcDACCode(a.marginH),
                                     ![cur[p]].margL = calcDACCode(a.marginL),
                                     ![cur[p]].slew = slew.ret,
                                     ![cur[p]].step = step.ret]
           /\ Say(p, slew.out \o step.out)
    /\ pc' = [pc EXCEPT ![p] = "funcGen_350"]
    /\ UNCHANGED <<cur, trace>>

\* lines 350-352, 359-361, 368-370, 376-378: cmd and freq of the mode
funcGen_350(p) ==
    /\ pc[p] = "funcGen_350"
    /\ LET c == calls[cur[p]]
           mode == c.args.mode
       IN  IF funcCmdRaises(mode, c.slew, c.step)
               THEN Raise(p, "TypeError")
           ELSE IF ZeroDivisor(funcFreq(mode, c.slew, c.step, c.margH, c.margL))
               THEN Raise(p, "ZeroDivisionError")
           ELSE /\ calls' =
                     [calls EXCEPT
                        ![cur[p]].cmd = funcCmd(mode, c.slew, c.step),
                        ![cur[p]].freq =
                            funcFreq(mode, c.slew, c.step, c.margH, c.margL)]
                /\ pc' = [pc EXCEPT ![p] = "funcGen_cfg"]
                /\ UNCHANGED cur
    /\ UNCHANGED <<trace, stdout>>

\* lines 353, 362, 371, 379
funcGen_cfg(p) ==
    /\ pc[p] = "funcGen_cfg"
    /\ BusWrite(p, funcGenWrites(calls[cur[p]])[1], "funcGen_margH")
    /\ UNCHANGED stdout

\* lines 354, 363, 372, 380
funcGen_margH(p) ==
    /\ pc[p] = "funcGen_margH"
    /\ BusWrite(p, funcGenWrites(calls[cur[p]])[2], "funcGen_margL")
    /\ UNCHANGED stdout

\* lines 355, 364, 373, 381
funcGen_margL(p) ==
    /\ pc[p] = "funcGen_margL"
    /\ BusWrite(p, funcGenWrites(calls[cur[p]])[3], "funcGen_start")
    /\ UNCHANGED stdout

\* lines 356, 365, 374, 382
funcGen_start(p) ==
    /\ pc[p] = "funcGen_start"
    /\ BusWrite(p, funcGenWrites(calls[cur[p]])[4], "funcGen_print")
    /\ UNCHANGED stdout

\* lines 357, 366, 375, 384
funcGen_print(p) ==
    /\ pc[p] = "funcGen_print"
    /\ LET c == calls[cur[p]]
       IN  Say(p, << <<"Genenrator Mode", c.args.mode, c.args.marginH,
                      c.args.marginL, Item(c.slew, 0), c.freq>> >>)
    /\ pc' = [pc EXCEPT ![p] = "return"]
    /\ UNCHANGED <<cur, calls, trace>>

\* lines 388-393, 395-397, 399-401
medGen(p) ==
    /\ pc[p] = "medGen"
    /\ LET a == calls[cur[p]].args
           dead_time == calcDeadtime(a.deadtime)
           onTime == calcPulse_on_time(a.on)
           offTime == calcPulse_off_time(a.off)
       IN  IF Subscriptable(dead_time) /\ Subscriptable(onTime)
              /\ Subscriptable(offTime)
               THEN BusWrite(p, <<regMedConfig,
                                  nibble(medCmd(a.mode, dead_time, offTime,
                                                onTime))>>,
                             "medGen_print")
           ELSE Raise(p, "TypeError") /\ UNCHANGED trace
    /\ UNCHANGED stdout

\* lines 394, 398, 402
medGen_print(p) ==
    /\ pc[p] = "medGen_print"
    /\ LET a == calls[cur[p]].args
           col == medColumn(a.mode)
       IN  Say(p, << <<"Medical Signal", a.mode,
                      Item(calcDeadtime(a.deadtime), col),
                      Item(calcPulse_off_time(a.off), col),
                      Item(calcPulse_on_time(a.on), col)>> >>)
    /\ pc' = [pc EXCEPT ![p] = "return"]
    /\ UNCHANGED <<cur, calls, trace>>

\* what main prints when the method has returned, lines 418-477
MainSays(c) ==
    IF c.op = "setVoltage" THEN << <<"DAC output", Shr(c.ret.int, 2)>> >>
    ELSE IF c.op = "NVM"
        THEN IF c.args.mode = "prog" THEN << <<"NVM Updated">> >>
             ELSE << <<"NVM Reloaded">> >>
    ELSE IF c.op = "lock" THEN << <<"DAC Locked">> >>
    ELSE IF c.op = "unLock" THEN << <<"DAC Unlocked">> >>
    ELSE IF c.op = "funcGenOff"
        THEN << <<"Function Generator Turned Off">> >>
    ELSE IF c.op = "reset" THEN << <<"DAC Reseted">> >>
    ELSE IF c.op = "factoryReset"
        THEN << <<"DAC Loaded with Factory Configuration">> >>
    ELSE <<>>

\* the method returns to main, which prints and ends
Return(p) ==
    /\ pc[p] = "return"
    /\ calls' = [calls EXCEPT ![cur[p]].status = "returned"]
    /\ Say(p, MainSays(calls[cur[p]]))
    /\ pc' = [pc EXCEPT ![p] = "idle"]
    /\ cur' = [cur EXCEPT ![p] = 0]
    /\ UNCHANGED trace

\* the requests made by a flag: -l, -u, -r, -o, -f
FlagStep(p) ==
    \/ lock_309(p) \/ lock_310(p)
    \/ unLock_313(p) \/ unLock_314(p)
    \/ reset(p) \/ funcGenOff(p) \/ factoryReset(p)

\* "func"
FuncStep(p) ==
    \/ funcGen_341(p) \/ funcGen_342(p) \/ funcGen_343(p) \/ funcGen_350(p)
    \/ funcGen_cfg(p) \/ funcGen_margH(p) \/ funcGen_margL(p)
    \/ funcGen_start(p) \/ funcGen_print(p)

\* "v", "w", "p", "nvm", "med"
CommandStep(p) ==
    \/ setVoltage(p) \/ setVoltage_293(p)
    \/ power(p) \/ write(p) \/ NVM(p)
    \/ medGen(p) \/ medGen_print(p)

\* One run of the script, any request of the command line.
Next ==
    \/ Begin(1, CliOps, 1)
    \/ FlagStep(1) \/ FuncStep(1) \/ CommandStep(1)
    \/ Return(1)

Spec == Init /\ [][Next]_vars

\* Up to MaxCalls runs of the script, one after the other, each a flag or
\* "func" with its defaults.
NextSeq ==
    \/ Begin(1, SeqOps, MaxCalls)
    \/ FlagStep(1) \/ FuncStep(1)
    \/ Return(1)

SpecSeq == Init /\ [][NextSeq]_vars

\* the requests of two runs of the script that overlap: -l, "w" of the
\* config register, "func" with its defaults
ConcOps ==
    {[op |-> "lock", args |-> NoArgs],
     [op |-> "write", args |-> [reg |-> regConfig, val |-> 0]],
     [op |-> "funcGen",
      args |-> [mode |-> "square", marginH |-> 5000, marginL |-> 0,
                slew_rate |-> 0, code_step |-> 0]]}

ConcStep(p) ==
    \/ lock_309(p) \/ lock_310(p)
    \/ write(p)
    \/ FuncStep(p)
    \/ Return(p)

\* Two runs of the script at once, each its own process with its own
\* SMBus handle on the same device (lines 220-222): nothing in the script
\* holds the bus across the writes of a method, so the steps of the two
\* runs interleave.
NextConc ==
    \E p \in Procs :
        \/ Begin(p, ConcOps, Cardinality(Procs))
        \/ ConcStep(p)

SpecConc == Init /\ [][NextConc]_vars

----------------------------------------------------------------------------
(* Reading the trace *)

\* what call i did, in order: its writes that reached the bus and its sleeps
CallDone(i) == SelectSeq(trace, LAMBDA e : e.call = i /\ e.kind # "fail")

\* the writes of call i that reached the bus
CallWrites(i) ==
    SelectSeq(trace, LAMBDA e : e.call = i /\ e.kind = "write")

\* the transfers of call i that failed
CallFails(i) == SelectSeq(trace, LAMBDA e : e.call = i /\ e.kind = "fail")

\* every write that reached the bus
BusLog == SelectSeq(trace, LAMBDA e : e.kind = "write")

IsPrefix(s, t) == Len(s) <= Len(t) /\ \A k \in 1..Len(s) : s[k] = t[k]

Wr(i, reg, b0, b1) ==
    [call |-> i, kind |-> "write", reg |-> reg, data |-> <<b0, b1>>]

\* byte0 * 256 + byte1
Join(data) == data[1] * 256 + data[2]

CallIds == 1..Len(calls)

Returned(i) == calls[i].status = "returned"

----------------------------------------------------------------------------
(* C1 *)

C1_Sequence(i) ==
    LET c == calls[i]
    IN  << Wr(i, 211, 0, 0),
           [call |-> i, kind |-> "sleep", ms |-> 500],
           Wr(i, 209, c.cmd \div 256, c.cmd % 256),
           Wr(i, 37, c.margH \div 256, c.margH % 256),
           Wr(i, 38, c.margL \div 256, c.margL % 256),
           Wr(i, 211, 1, 0) >>

\* C1: what a funcGen call has done at any moment is a prefix of: write
\* (0xD3, 0x0000), sleep 500 ms, write (0xD1, cmd), write (0x25, margH),
\* write (0x26, margL), write (0xD3, 0x0100); a call that returned has done
\* all six.  So 0x0100 is never written before the config command and both
\* margins, and the sleep lies between the first write and the config write.
C1_WaveformOrder ==
    \A i \in CallIds :
        calls[i].op = "funcGen" =>
            /\ IsPrefix(CallDone(i), C1_Sequence(i))
            /\ Returned(i) => CallDone(i) = C1_Sequence(i)

\* a sawtooth call with distinct margins has returned
C1_Witness ==
    \E i \in CallIds :
        /\ calls[i].op = "funcGen" /\ Returned(i)
        /\ calls[i].args.mode = "sawL"
        /\ calls[i].args.marginH = 5000 /\ calls[i].args.marginL = 5
        /\ Len(CallWrites(i)) = 5

----------------------------------------------------------------------------
(* C2 *)

BadIndex(a) == a.slew_rate > 15 \/ a.code_step > 7

\* C2: a funcGen call given a slew index above 15 or a step index above 7
\* never returns normally and never has a write of its own on the bus.
C2_BadIndexNoWrite ==
    \A i \in CallIds :
        (calls[i].op = "funcGen" /\ BadIndex(calls[i].args)) =>
            /\ ~Returned(i)
            /\ CallWrites(i) = <<>>

----------------------------------------------------------------------------
(* C3 *)

C3_Pair(i) ==
    IF calls[i].op = "lock"
        THEN << Wr(i, 211, 0, 0), Wr(i, 209, 32, 0) >>
    ELSE << Wr(i, 211, 80, 0), Wr(i, 209, 0, 0) >>

RECURSIVE C3_Concat(_)
C3_Concat(n) == IF n = 0 THEN <<>> ELSE C3_Concat(n - 1) \o C3_Pair(n)

\* C3: a lock call that returned has written exactly (0xD3, 0x0000) then
\* (0xD1, 0x2000), an unLock call exactly (0xD3, 0x5000) then (0xD1,
\* 0x0000); when every call so far was a lock or an unLock and has returned,
\* the bus log is the concatenation of these pairs in call order.
C3_LockUnlockPairs ==
    /\ \A i \in CallIds :
          (calls[i].op \in {"lock", "unLock"} /\ Returned(i)) =>
              CallWrites(i) = C3_Pair(i)
    /\ (\A i \in CallIds : calls[i].op \in {"lock", "unLock"} /\ Returned(i))
          => BusLog = C3_Concat(Len(calls))

\* lock, unLock, lock have returned
C3_Witness ==
    /\ Len(calls) = 3
    /\ calls[1].op = "lock" /\ calls[2].op = "unLock" /\ calls[3].op = "lock"
    /\ \A i \in 1..3 : Returned(i)
    /\ Len(BusLog) = 6
    /\ BusLog[1] = Wr(1, 211, 0, 0) /\ BusLog[5] = Wr(3, 211, 0, 0)
    /\ BusLog[2] = Wr(1, 209, 32, 0) /\ BusLog[6] = Wr(3, 209, 32, 0)

----------------------------------------------------------------------------
(* C4 *)

C4_Priority(mode) == IF mode = "l" THEN 1 ELSE IF mode = "m" THEN 2 ELSE 4

\* C4: a medGen call that returned has issued exactly one write, to 0xD2,
\* of the 16-bit value priority * 256 + deadtime * 16 + off * 4 + on, from
\* which the four fields are read back at bits 10..8, 5..4, 3..2 and 1..0;
\* low, deadtime 2, off 1, on 3 gives 0x127.
C4_MedicalPacking ==
    \A i \in CallIds :
        (calls[i].op = "medGen" /\ Returned(i)) =>
            LET a == calls[i].args
                w == CallWrites(i)
                v == Join(w[1].data)
            IN  /\ Len(w) = 1
                /\ w[1].reg = 210
                /\ w[1].data[1] \in 0..255 /\ w[1].data[2] \in 0..255
                /\ v = C4_Priority(a.mode) * 256 + a.deadtime * 16
                        + a.off * 4 + a.on
                /\ v \div 256 = C4_Priority(a.mode)
                /\ (v \div 16) % 16 = a.deadtime
                /\ (v \div 4) % 4 = a.off
                /\ v % 4 = a.on
                /\ (a.mode = "l" /\ a.deadtime = 2 /\ a.off = 1 /\ a.on = 3)
                      => v = 295

\* low priority, deadtime 2, off 1, on 3 has been written as 0x0127
C4_Witness ==
    \E i \in CallIds :
        /\ calls[i].op = "medGen" /\ Returned(i)
        /\ calls[i].args = [mode |-> "l", deadtime |-> 2, on |-> 3, off |-> 1]
        /\ CallWrites(i) = << Wr(i, 210, 1, 39) >>

----------------------------------------------------------------------------
(* C5 *)

C5_ModeCode(mode) ==
    IF mode = "square" THEN 3
    ELSE IF mode = "triangle" THEN 0
    ELSE IF mode = "sawH" THEN 2
    ELSE 1

\* C5: for a slew index in 0..14 and, unless the mode is square, a step
\* index in 0..7, the value funcGen writes to 0xD1 is mode * 2^14 + step *
\* 2^9 + slew * 2^5, with step taken as 0 for square whatever index was
\* given; it is below 2^16, the mode is read back from bits 15..14, the
\* step from bits 11..9, the slew from bits 8..5, every other bit is 0, and
\* the four mode codes differ.
C5_ConfigPacking ==
    /\ Cardinality({C5_ModeCode(m) : m \in Modes}) = 4
    /\ \A i \in CallIds :
          LET a == calls[i].args
              w == CallWrites(i)
          IN  (/\ calls[i].op = "funcGen"
               /\ a.slew_rate \in 0..14
               /\ a.mode = "square" \/ a.code_step \in 0..7
               /\ Len(w) >= 2) =>
                  LET v == Join(w[2].data)
                      st == IF a.mode = "square" THEN 0 ELSE a.code_step
                  IN  /\ w[2].reg = 209
                      /\ w[2].data[1] \in 0..255 /\ w[2].data[2] \in 0..255
                      /\ v = C5_ModeCode(a.mode) * 16384 + st * 512
                              + a.slew_rate * 32
                      /\ v < 65536
                      /\ v \div 16384 = C5_ModeCode(a.mode)
                      /\ (v \div 512) % 8 = st
                      /\ (v \div 32) % 16 = a.slew_rate
                      /\ (v \div 4096) % 4 = 0
                      /\ v % 32 = 0

\* a sawtooth-rising call with the largest slew and step codes has written
\* 0x8FC0 to 0xD1 and returned
C5_Witness ==
    \E i \in CallIds :
        /\ calls[i].op = "funcGen" /\ Returned(i)
        /\ calls[i].args.mode = "sawH"
        /\ calls[i].args.slew_rate = 14 /\ calls[i].args.code_step = 7
        /\ Join(CallWrites(i)[2].data) = 36800

----------------------------------------------------------------------------
(* C6 *)

C6_LsbCounts == <<1, 2, 3, 4, 6, 8, 16, 32>>

C6_Printed(i, text) ==
    \E k \in 1..Len(stdout) : stdout[k] = [call |-> i, text |-> text]

\* C6: once funcGen has looked up its slew and step indices, slew is a pair
\* whose code is the index for every index in 0..15, step is the pair
\* (index, LSB count) for every index in 0..7, and for an index outside
\* these ranges no pair is returned and the invalid argument is reported.
C6_Lookups ==
    \A p \in Procs :
        pc[p] = "funcGen_350" =>
            LET c == calls[cur[p]]
                a == c.args
            IN  /\ a.slew_rate \in 0..15 =>
                      Subscriptable(c.slew) /\ Item(c.slew, 0) = a.slew_rate
                /\ a.code_step \in 0..7 =>
                      /\ Subscriptable(c.step)
                      /\ c.step.list
                            = <<a.code_step, C6_LsbCounts[a.code_step + 1]>>
                /\ a.slew_rate \notin 0..15 =>
                      /\ ~Subscriptable(c.slew)
                      /\ C6_Printed(cur[p],
                            "Please enter Slew Rate number from 0 to 15")
                /\ a.code_step \notin 0..7 =>
                      /\ ~Subscriptable(c.step)
                      /\ C6_Printed(cur[p],
                            "Please enter Code Step number from 0 to 7")

----------------------------------------------------------------------------
(* C7 *)

\* C7: a setVoltage call for 0 V <= v <= 5 V that returned has issued
\* exactly one write, to 0x21, of the bytes (code >> 8, code & 0xFF) of the
\* code it returns; the code is a multiple of 4 in 0..4092 and code / 4 is
\* an integer nearest to v * 1023 / 5 (512 for the tie at 2.5 V); 0 V gives
\* 0 and 5 V gives 4092.  A call never has more than that one write.
C7_SetVoltage ==
    \A i \in CallIds :
        (calls[i].op = "setVoltage" /\ calls[i].args.voltage \in 0..5000) =>
            /\ Len(CallWrites(i)) <= 1
            /\ Returned(i) =>
                  LET v == calls[i].args.voltage
                      code == calls[i].ret.int
                      d == 5000 * (code \div 4) - 1023 * v
                  IN  /\ calls[i].ret.kind = "int"
                      /\ CallWrites(i)
                            = << Wr(i, 33, code \div 256, code % 256) >>
                      /\ code % 4 = 0
                      /\ code \in 0..4092
                      /\ d \in (0 - 2500) .. 2500
                      /\ v = 0 => code = 0
                      /\ v = 5000 => code = 4092
                      /\ v = 2500 => code = 2048

\* setVoltage(5 V) has written (0x0F, 0xFC) and returned 4092
C7_Witness ==
    \E i \in CallIds :
        /\ calls[i].op = "setVoltage" /\ Returned(i)
        /\ calls[i].args.voltage = 5000
        /\ calls[i].ret = PyInt(4092)
        /\ CallWrites(i) = << Wr(i, 33, 15, 252) >>

----------------------------------------------------------------------------
(* C8 *)

\* C8 as stated: setVoltage(3.3) returns 2704 and writes (0x0A, 0x90) to
\* 0x21.
C8_Stated ==
    \A i \in CallIds :
        (calls[i].op = "setVoltage" /\ calls[i].args.voltage = 3300
         /\ Returned(i)) =>
            /\ calls[i].ret = PyInt(2704)
            /\ CallWrites(i) = << Wr(i, 33, 10, 144) >>

\* C8, amended: setVoltage(3.3) returns 675 << 2 = 2700 (0x0A8C) and writes
\* the two bytes (0x0A, 0x8C) to 0x21.
C8_SetVoltage3300 ==
    \A i \in CallIds :
        (calls[i].op = "setVoltage" /\ calls[i].args.voltage = 3300
         /\ Returned(i)) =>
            /\ calls[i].ret = PyInt(2700)
            /\ CallWrites(i) = << Wr(i, 33, 10, 140) >>

\* setVoltage(3.3) has written to 0x21 and returned
C8_Witness ==
    \E i \in CallIds :
        /\ calls[i].op = "setVoltage" /\ Returned(i)
        /\ calls[i].args.voltage = 3300
        /\ Len(CallWrites(i)) = 1 /\ CallWrites(i)[1].reg = 33

----------------------------------------------------------------------------
(* C9 *)

\* C9: every payload handed to the bus, whether the transfer succeeds or
\* not, is two bytes, each in 0..255.
C9_TwoBytes ==
    \A k \in 1..Len(trace) :
        trace[k].kind \in {"write", "fail"} =>
            /\ Len(trace[k].data) = 2
            /\ trace[k].data[1] \in 0..255
            /\ trace[k].data[2] \in 0..255

----------------------------------------------------------------------------
(* C10 *)

C10_Writes(i) ==
    IF calls[i].op = "lock"
        THEN << Wr(i, 211, 0, 0), Wr(i, 209, 32, 0) >>
    ELSE IF calls[i].op = "unLock"
        THEN << Wr(i, 211, 80, 0), Wr(i, 209, 0, 0) >>
    ELSE SelectSeq(C1_Sequence(i), LAMBDA e : e.kind = "write")

\* everything of call i in the trace
C10_All(i) == SelectSeq(trace, LAMBDA e : e.call = i)

\* C10: when a transfer of a lock, unLock or funcGen call has failed, at
\* step k, the call has ended with OSError and has printed nothing, the
\* failed transfer was tried once and is the last thing the call did, and
\* the writes of the call on the bus are exactly the first k - 1 of its
\* sequence, also after any later call.
C10_FailureStops ==
    \A i \in CallIds :
        (calls[i].op \in {"lock", "unLock", "funcGen"}
         /\ CallFails(i) # <<>>) =>
            LET k == Len(CallWrites(i)) + 1
                all == C10_All(i)
                f == CallFails(i)[1]
            IN  /\ calls[i].status = "OSError"
                /\ cur[calls[i].proc] # i
                /\ Len(CallFails(i)) = 1
                /\ all[Len(all)] = f
                /\ k <= Len(C10_Writes(i))
                /\ f.reg = C10_Writes(i)[k].reg
                /\ f.data = C10_Writes(i)[k].data
                /\ CallWrites(i) = SubSeq(C10_Writes(i), 1, k - 1)
                /\ \A j \in 1..Len(stdout) : stdout[j].call # i

\* funcGen failed at its third write, and a lock call has returned since
C10_Witness ==
    /\ Len(calls) >= 2
    /\ calls[1].op = "funcGen" /\ calls[1].status = "OSError"
    /\ Len(CallWrites(1)) = 2
    /\ CallFails(1) = << [call |-> 1, kind |-> "fail", reg |-> 37,
                          data |-> <<15, 252>>] >>
    /\ calls[2].op = "lock" /\ Returned(2)
    /\ Len(BusLog) = 4

----------------------------------------------------------------------------
(* C11 *)

\* C11: no write of one call reaches the bus between the first and the last
\* write of another call.
C11_Serialized ==
    \A a, b, c \in 1..Len(trace) :
        (/\ a < b /\ b < c
         /\ trace[a].kind = "write" /\ trace[b].kind = "write"
         /\ trace[c].kind = "write"
         /\ trace[a].call = trace[c].call) =>
            trace[b].call = trace[a].call

----------------------------------------------------------------------------
(* C12 *)

\* C12: a funcGen call with a slew index in 0..14, a step index in 0..7 and
\* both margins in 0 V..5 V never ends with an exception of its own
\* computation, and once it has ended with no failed transfer it has
\* returned with all five writes issued.
C12_Completes ==
    \A i \in CallIds :
        LET a == calls[i].args
        IN  (/\ calls[i].op = "funcGen"
             /\ a.slew_rate \in 0..14 /\ a.code_step \in 0..7
             /\ a.marginH \in 0..5000 /\ a.marginL \in 0..5000) =>
                /\ calls[i].status \notin {"TypeError", "ZeroDivisionError"}
                /\ (calls[i].status # "running" /\ CallFails(i) = <<>>) =>
                      Returned(i) /\ Len(CallWrites(i)) = 5

====
